---- MODULE Spec2Model ----
(***************************************************************************)
(* State-machine model of MainEngine (src/src/src/MainEngine.cpp): the     *)
(* life cycle Init / PrepareScene / MainLoop / Stop / ~MainEngine, the     *)
(* per-frame phases of MainLoop, and the overlay UpdateWidget.             *)
(*                                                                         *)
(* Node, Transform, FreeCameraNode, MotorcycleNode, Lights and the program *)
(* entry point are not part of MainEngine.cpp; their operations are        *)
(* modelled from the written specification and are marked as such where    *)
(* they are defined.                                                       *)
(***************************************************************************)
EXTENDS Integers, Sequences, FiniteSets, TLC

VARIABLES
    pc,             \* position of the single program thread
    debug,          \* the build defines DEBUG (MainEngine.cpp:92)
    initFailure,    \* which setup step of Init failed ("none" if none did)
    initLog,        \* the setup steps Init has run, in order
    initResult,     \* value returned by Init (NotRun before the call)
    loopResult,     \* value returned by MainLoop (NotRun before it returns)
    window,         \* MainEngine::window: "null", "open" or "dangling"
    imguiInit,      \* InitializeImGui has run
    imguiShutdowns, \* number of times Stop shut ImGui down
    imguiBadShutdown, \* ImGui was shut down while it was not initialized
    windowDestroys, \* number of glfwDestroyWindow/glfwTerminate pairs issued
    stops,          \* explicit Stop calls made by the owner
    tree,           \* the scene tree in depth-first order: node -> [kind, parent]
    local,          \* node -> local transform
    world,          \* node -> world transform as of the last recomputation
    pending,        \* renderer's pending submissions: node -> submitted world transform
    active,         \* set of camera-capable nodes that report "active"
    lights,         \* *sceneLight, or NoLights while sceneLight is null
    skybox,         \* the skybox pointer is non-null
    isMotorcycle,   \* UpdateWidget's static checkbox value
    uiAngles,       \* UpdateWidget's static azimuth/elevation pairs (degrees)
    closeRequested, \* the window's close-requested flag
    glErrors,       \* pending graphics-API errors (glGetError queue)
    logged,         \* graphics-API errors logged by CheckGLErrors
    polled,         \* CheckGLErrors has run since the current frame started
    ran,            \* phases started in the current frame, in order
    nullDeref,      \* null pointers the program has called through
    foreign,        \* light directions last written by a writer other than the UI
    edits           \* UI edits of lighting fields made so far

vars == <<pc, debug, initFailure, initLog, initResult, loopResult, window,
          imguiInit, imguiShutdowns, imguiBadShutdown, windowDestroys, stops,
          tree, local, world, pending, active, lights, skybox, isMotorcycle,
          uiAngles, closeRequested, glErrors, logged, polled, ran,
          nullDeref, foreign, edits>>

-----------------------------------------------------------------------------
(* Bounds of the model.                                                    *)

\* houses_rows of PrepareScene, scaled down (the code uses 50)
HousesRows == 1
\* explicit Stop calls the owner may make
MaxStops == 1
\* graphics-API errors that may be pending at once
MaxGLErrors == 1
\* UI edits of lighting fields explored
MaxEdits == 1
\* largest value a lighting field is edited to
MaxValue == 1

\* Init / MainLoop have not returned a value yet
NotRun == -1

\* the null pointer, also the not-found result of GetChild
Null == 0

-----------------------------------------------------------------------------
(* Transform: 2x2 homogeneous matrices [[a, b], [0, 1]] over the integers  *)
(* modulo 5, a non-commutative stand-in for the 4x4 matrices of glm.       *)

Modulus == 5

Identity == [a |-> 1, b |-> 0]

\* matrix product m * n
Mul(m, n) == [a |-> (m.a * n.a) % Modulus, b |-> (m.a * n.b + m.b) % Modulus]

\* Transform::ComputeWorldMatrix(parentWorld) = parentWorld * localMatrix
ComputeWorldMatrix(parentWorld, localMatrix) == Mul(parentWorld, localMatrix)

-----------------------------------------------------------------------------
(* The scene tree.  Nodes are numbered in depth-first (insertion) order,   *)
(* node 1 is sceneRoot; tree[n] holds the node's dynamic type and parent.  *)

Nodes == 1..Len(tree)

SceneRoot == 1

NewNode(kind, parent) == [kind |-> kind, parent |-> parent]

\* MainEngine::MainEngine(): sceneRoot() -- a lone root node
EmptyTree == <<NewNode("Node", Null)>>

\* rotations Random::get may give a house (a-components of its local matrix)
Rotations == {1, 2}

\* number of houses the double loop of PrepareScene creates
HouseCount == HousesRows * HousesRows

\* house k of the double loop: a base under the root and a roof under the base;
\* at is the number of nodes already in the tree
HouseNodes(at) == <<NewNode("ModelNode", SceneRoot), NewNode("ModelNode", at + 1)>>

\* local transforms of house k: position from the loop indices, random rotation;
\* the roof is raised by one unit
HouseLocals(k, rot) ==
    <<[a |-> rot, b |-> (k * 7) % Modulus], [a |-> 1, b |-> 1]>>

RECURSIVE HousesTree(_, _)
HousesTree(k, at) ==
    IF k > HouseCount THEN <<>>
    ELSE HouseNodes(at) \o HousesTree(k + 1, at + 2)

RECURSIVE HousesLocals(_, _)
HousesLocals(k, rots) ==
    IF k > HouseCount THEN <<>>
    ELSE HouseLocals(k, rots[k]) \o HousesLocals(k + 1, rots)

\* the tree PrepareScene assembles: camera, grass, the houses, the motorcycle
SceneTree ==
    EmptyTree
    \o <<NewNode("FreeCameraNode", SceneRoot), NewNode("ModelNode", SceneRoot)>>
    \o HousesTree(1, 3)
    \o <<NewNode("MotorcycleNode", SceneRoot)>>

\* the local transforms PrepareScene sets (grass scaled by houses_rows * 4,
\* motorcycle scaled down), given the houses' random rotations
SceneLocals(rots) ==
    <<Identity, Identity, [a |-> 1 + ((HousesRows * 4) % (Modulus - 1)), b |-> 0]>>
    \o HousesLocals(1, rots)
    \o <<[a |-> 2, b |-> 0]>>

\* dynamic_cast<T*>(node): the node when its dynamic type is T, else null
DynamicCast(kind, n) == IF n # Null /\ tree[n].kind = kind THEN n ELSE Null

\* predicate lambdas of UpdateWidget: "if (dynamic_cast<T*>(node)) return true;"
\* and nothing else -- on a node of another type control flows off the end of a
\* value-returning function, so the value the caller sees is undefined
PredicateOutcomes(kind, n) == IF tree[n].kind = kind THEN {TRUE} ELSE BOOLEAN

\* Node::GetChild(predicate): the first descendant, in depth-first order, for
\* which the predicate answers true, or the not-found result; the set holds
\* every result the undefined predicate values allow
GetChild(kind) ==
    LET below == 2..Len(tree)
    IN  {n \in below : /\ TRUE \in PredicateOutcomes(kind, n)
                       /\ \A m \in 2..(n - 1) : FALSE \in PredicateOutcomes(kind, m)}
        \cup {r \in {Null} : \A m \in below : FALSE \in PredicateOutcomes(kind, m)}

\* nodes able to act as the camera
CameraCapable == {n \in Nodes : tree[n].kind \in {"FreeCameraNode", "MotorcycleNode"}}

\* an activation that leaves the other camera nodes as they are
SetActiveKeepOthers(act, n) == act \cup {n}

\* FreeCameraNode::SetActive(): this camera becomes the active one and every
\* other camera node in the tree is deactivated
SetActive(act, n) == {n}

\* MotorcycleNode::SetIsActive(flag): activation follows the same protocol,
\* deactivation clears the node's own flag
SetIsActive(act, n, flag) == IF flag THEN SetActive(act, n) ELSE act \ {n}

-----------------------------------------------------------------------------
(* Lighting model.  Scalars stand for colours, positions and attenuation   *)
(* terms; angles are fixed-point (radians in 1/1000, degrees in 1/1000).   *)

\* glm::radians on 1/1000 degree, rounded to the nearest 1/1000 radian
RadiansOf(mdeg) == (mdeg * 3142 + 90000) \div 180000

\* glm::degrees on 1/1000 radian, rounded to the nearest 1/1000 degree
DegreesOf(mrad) == (mrad * 180000 + 1571) \div 3142

\* glm::radians applied to a UI angle given in whole degrees
Radians(deg) == RadiansOf(deg * 1000)

\* Lights::DirectionVector(azimuth, elevation): the unit vector is identified
\* by the pair of angles it is computed from
DirectionVector(azimuth, elevation) == <<azimuth, elevation>>

\* the statics of UpdateWidget: sunDirection, directionOne, directionTwo
InitialAngles ==
    [sun |-> <<-30, 0>>, spotLightOne |-> <<-30, -30>>, spotLightTwo |-> <<-140, 40>>]

NewSpotLight ==
    [color |-> 0, position |-> 0, direction |-> DirectionVector(0, 0),
     linear |-> 0, quadratic |-> 0, cutOff |-> 218, outerCutOff |-> 305]

\* std::make_shared<Lights>()
NewLights ==
    [absent |-> FALSE,
     sun |-> [color |-> 0, direction |-> DirectionVector(0, 0)],
     bulb |-> [color |-> 0, position |-> 0, linear |-> 0, quadratic |-> 0],
     spotLightOne |-> NewSpotLight,
     spotLightTwo |-> NewSpotLight]

\* sceneLight before PrepareScene: a null shared_ptr
NoLights == [absent |-> TRUE]

\* one widget interaction of the user in a frame: the widget and its new value
NoEdit == [light |-> "none", field |-> "none", value |-> 0]

EditTargets ==
    ({"sun", "bulb", "spotLightOne", "spotLightTwo"} \X {"color"})
    \cup ({"bulb", "spotLightOne", "spotLightTwo"} \X {"position", "linear", "quadratic"})
    \cup ({"sun", "spotLightOne", "spotLightTwo"} \X {"azimuth", "elevation"})
    \cup ({"spotLightOne", "spotLightTwo"} \X {"cutOff", "outerCutOff"})

AllEdits ==
    {NoEdit} \cup {[light |-> t[1], field |-> t[2], value |-> v] :
                       t \in EditTargets, v \in 1..MaxValue}

\* an ImGui input widget bound to a variable: the variable keeps its value
\* unless the user acted on this widget in this frame
Widget(edit, light, field, old) ==
    IF edit.light = light /\ edit.field = field THEN edit.value ELSE old

\* the azimuth/elevation statics after the DragFloat2 widgets of this frame
AnglesAfter(edit) ==
    [l \in {"sun", "spotLightOne", "spotLightTwo"} |->
        <<Widget(edit, l, "azimuth", uiAngles[l][1]),
          Widget(edit, l, "elevation", uiAngles[l][2])>>]

\* direction recomputed from a pair of UI angles
DirectionOf(pair) == DirectionVector(Radians(pair[1]), Radians(pair[2]))

\* a sun whose direction is left as the lighting model holds it
SunAfterKeepDirection(edit) ==
    [color |-> Widget(edit, "sun", "color", lights.sun.color),
     direction |-> lights.sun.direction]

\* UpdateWidget's copy of the sun after its widgets
SunAfter(edit) ==
    [color |-> Widget(edit, "sun", "color", lights.sun.color),
     direction |-> DirectionOf(AnglesAfter(edit).sun)]

\* UpdateWidget's copy of the point light after its widgets
BulbAfter(edit) ==
    [f \in {"color", "position", "linear", "quadratic"} |->
        Widget(edit, "bulb", f, lights.bulb[f])]

\* a cut-off angle: converted to degrees, shown in a widget (whose value, when
\* the user acts, is in whole degrees), converted back to radians
CutOffAfter(edit, l, f) ==
    LET shown == DegreesOf(lights[l][f])
    IN  RadiansOf(IF edit.light = l /\ edit.field = f THEN edit.value * 1000 ELSE shown)

\* UpdateWidget's copy of a spot light after its widgets
SpotAfter(edit, l) ==
    [color |-> Widget(edit, l, "color", lights[l].color),
     position |-> Widget(edit, l, "position", lights[l].position),
     direction |-> DirectionOf(AnglesAfter(edit)[l]),
     linear |-> Widget(edit, l, "linear", lights[l].linear),
     quadratic |-> Widget(edit, l, "quadratic", lights[l].quadratic),
     cutOff |-> CutOffAfter(edit, l, "cutOff"),
     outerCutOff |-> CutOffAfter(edit, l, "outerCutOff")]

\* SetSun, SetBulb, SetSpotLightOne, SetSpotLightTwo with the edited copies
LightsAfter(edit) ==
    [absent |-> FALSE,
     sun |-> SunAfter(edit),
     bulb |-> BulbAfter(edit),
     spotLightOne |-> SpotAfter(edit, "spotLightOne"),
     spotLightTwo |-> SpotAfter(edit, "spotLightTwo")]

-----------------------------------------------------------------------------
(* Life cycle: construction, Init, PrepareScene, Stop, destruction.        *)

\* state after MainEngine::MainEngine(), before Init; the build is fixed
Init ==
    /\ pc = "main"
    /\ debug \in BOOLEAN
    /\ initFailure = "none"
    /\ initLog = <<>>
    /\ initResult = NotRun
    /\ loopResult = NotRun
    /\ window = "null"
    /\ imguiInit = FALSE
    /\ imguiShutdowns = 0
    /\ imguiBadShutdown = FALSE
    /\ windowDestroys = 0
    /\ stops = 0
    /\ tree = EmptyTree
    /\ local = <<Identity>>
    /\ world = <<Identity>>
    /\ pending = <<>>
    /\ active = {}
    /\ lights = NoLights
    /\ skybox = FALSE
    /\ isMotorcycle = FALSE
    /\ uiAngles = InitialAngles
    /\ closeRequested = FALSE
    /\ glErrors = 0
    /\ logged = 0
    /\ polled = FALSE
    /\ ran = <<>>
    /\ nullDeref = {}
    /\ foreign = {}
    /\ edits = 0

\* the setup steps of Init, in program order
InitSteps ==
    <<"glfwInit", "InitializeWindow", "gladLoadGLLoader", "CursorPosCallback",
      "InitializeImGui", "GizmoInitialize">>

\* the steps that report failure
Failures == {"none", "glfwInit", "InitializeWindow", "gladLoadGLLoader"}

\* a variant of Init whose loader check logs the failure and carries on
InitRunFallThrough(fail) ==
    IF fail = "glfwInit"
    THEN [log |-> <<"glfwInit">>, result |-> 1, window |-> "null", imgui |-> FALSE]
    ELSE IF fail = "InitializeWindow"
    THEN [log |-> <<"glfwInit", "InitializeWindow">>, result |-> 1,
          window |-> "null", imgui |-> FALSE]
    ELSE [log |-> InitSteps, result |-> 0, window |-> "open", imgui |-> TRUE]

\* MainEngine::Init with the step fail failing: the steps run, the value
\* returned, the window pointer and whether ImGui got initialized
InitRun(fail) ==
    IF fail = "glfwInit"
    THEN [log |-> <<"glfwInit">>, result |-> 1, window |-> "null", imgui |-> FALSE]
    ELSE IF fail = "InitializeWindow"
    THEN [log |-> <<"glfwInit", "InitializeWindow">>, result |-> 1,
          window |-> "null", imgui |-> FALSE]
    ELSE IF fail = "gladLoadGLLoader"
    THEN [log |-> <<"glfwInit", "InitializeWindow", "gladLoadGLLoader">>,
          result |-> 1, window |-> "open", imgui |-> FALSE]
    ELSE [log |-> InitSteps, result |-> 0, window |-> "open", imgui |-> TRUE]

EngineInit(failures) ==
    /\ pc = "main"
    /\ \E fail \in failures :
         LET r == InitRun(fail)
         IN  /\ initFailure' = fail
             /\ initLog' = r.log
             /\ initResult' = r.result
             /\ window' = r.window
             /\ imguiInit' = r.imgui
             /\ pc' = IF r.result = 0 THEN "inited" ELSE "initFailed"
    /\ UNCHANGED <<debug, loopResult, imguiShutdowns, imguiBadShutdown,
                   windowDestroys, stops, tree, local, world, pending, active,
                   lights, skybox, isMotorcycle, uiAngles, closeRequested,
                   glErrors, logged, polled, ran, nullDeref, foreign, edits>>

\* a graphics-API call that may leave up to raised new errors pending
Raise(raised) == IF glErrors + raised > MaxGLErrors THEN MaxGLErrors ELSE glErrors + raised

\* the free camera is the first child PrepareScene adds to the root
FreeCamera == 2

PrepareScene(rotations, raises) ==
    /\ pc = "inited"
    /\ \E rots \in [1..HouseCount -> rotations], raised \in raises :
         /\ tree' = SceneTree
         /\ local' = SceneLocals(rots)
         /\ world' = [n \in 1..Len(SceneTree) |-> Identity]
         /\ glErrors' = Raise(raised)
    /\ active' = SetActive(active, FreeCamera)
    /\ lights' = NewLights
    /\ skybox' = TRUE
    /\ pc' = "prepared"
    /\ UNCHANGED <<debug, initFailure, initLog, initResult, loopResult, window,
                   imguiInit, imguiShutdowns, imguiBadShutdown, windowDestroys,
                   stops, pending, isMotorcycle, uiAngles, closeRequested,
                   logged, polled, ran, nullDeref, foreign, edits>>

\* positions from which the owner of the engine may stop or destroy it
Owned == {"main", "initFailed", "inited", "prepared", "returned"}

\* the body of Stop: ImGui is shut down, then the window, when the pointer is
\* not null, is destroyed and GLFW terminated; the pointer is left as it was
StopBody ==
    /\ imguiShutdowns' = imguiShutdowns + 1
    /\ imguiBadShutdown' = (imguiBadShutdown \/ ~imguiInit \/ imguiShutdowns > 0)
    /\ windowDestroys' = IF window = "null" THEN windowDestroys ELSE windowDestroys + 1
    /\ window' = IF window = "null" THEN "null" ELSE "dangling"

\* an explicit call of Stop by the owner, once it is done with the engine
Stop ==
    /\ pc \in {"initFailed", "returned"}
    /\ stops < MaxStops
    /\ stops' = stops + 1
    /\ StopBody
    /\ UNCHANGED <<pc, debug, initFailure, initLog, initResult, loopResult,
                   imguiInit, tree, local, world, pending, active, lights, skybox,
                   isMotorcycle, uiAngles, closeRequested, glErrors, logged,
                   polled, ran, nullDeref, foreign, edits>>

\* MainEngine::~MainEngine()
Destructor ==
    /\ pc \in Owned
    /\ pc' = "destroyed"
    /\ StopBody
    /\ UNCHANGED <<debug, initFailure, initLog, initResult, loopResult,
                   imguiInit, stops, tree, local, world, pending, active, lights,
                   skybox, isMotorcycle, uiAngles, closeRequested, glErrors,
                   logged, polled, ran, nullDeref, foreign, edits>>

-----------------------------------------------------------------------------
(* MainLoop.                                                               *)

\* the per-frame phases, positions of the thread inside the loop body
Phases ==
    {"Update", "CalculateWorldTransform", "SceneDraw", "RendererDraw",
     "DrawGizmos", "SkyboxDraw", "UpdateWidget"}

InLoop == pc \in Phases \cup {"head", "Present"}

\* a loop body that draws the scene before it recomputes the world transforms
PhaseAfterDrawFirst(phase) ==
    CASE phase = "Update" -> "SceneDraw"
      [] phase = "SceneDraw" -> "CalculateWorldTransform"
      [] phase = "CalculateWorldTransform" -> "RendererDraw"
      [] phase = "RendererDraw" -> "DrawGizmos"
      [] phase = "DrawGizmos" -> IF skybox THEN "SkyboxDraw" ELSE "UpdateWidget"
      [] phase = "SkyboxDraw" -> "UpdateWidget"
      [] phase = "UpdateWidget" -> "Present"

\* a loop body that draws the overlay before the skybox
PhaseAfterWidgetEarly(phase) ==
    CASE phase = "Update" -> "CalculateWorldTransform"
      [] phase = "CalculateWorldTransform" -> "SceneDraw"
      [] phase = "SceneDraw" -> "RendererDraw"
      [] phase = "RendererDraw" -> "DrawGizmos"
      [] phase = "DrawGizmos" -> "UpdateWidget"
      [] phase = "UpdateWidget" -> IF skybox THEN "SkyboxDraw" ELSE "Present"
      [] phase = "SkyboxDraw" -> "Present"

\* the statement that follows a phase in the loop body
PhaseAfter(phase) ==
    CASE phase = "Update" -> "CalculateWorldTransform"
      [] phase = "CalculateWorldTransform" -> "SceneDraw"
      [] phase = "SceneDraw" -> "RendererDraw"
      [] phase = "RendererDraw" -> "DrawGizmos"
      [] phase = "DrawGizmos" -> IF skybox THEN "SkyboxDraw" ELSE "UpdateWidget"
      [] phase = "SkyboxDraw" -> "UpdateWidget"
      [] phase = "UpdateWidget" -> "Present"

\* a phase starts and, unless the process dies in it, the next one follows
Advance(phase) ==
    /\ ran' = Append(ran, phase)
    /\ pc' = PhaseAfter(phase)

\* a call through a null pointer is undefined: the process dies there
Abort(phase) ==
    /\ ran' = Append(ran, phase)
    /\ pc' = "aborted"

\* CheckGLErrors: every pending error is logged and the queue is left empty
CheckGLErrors ==
    /\ logged' = logged + glErrors
    /\ glErrors' = 0
    /\ polled' = TRUE

\* entry of MainLoop up to the loop: the error poll of a DEBUG build
MainLoopEnter ==
    /\ pc \in {"inited", "prepared"}
    /\ IF debug THEN CheckGLErrors ELSE UNCHANGED <<logged, glErrors, polled>>
    /\ pc' = "head"
    /\ UNCHANGED <<debug, initFailure, initLog, initResult, loopResult, window,
                   imguiInit, imguiShutdowns, imguiBadShutdown, windowDestroys,
                   stops, tree, local, world, pending, active, lights, skybox,
                   isMotorcycle, uiAngles, closeRequested, ran, nullDeref,
                   foreign, edits>>

\* the loop condition, and the start of a frame: time, clear, ImGui NewFrame,
\* viewport
LoopHead ==
    /\ pc = "head"
    /\ IF closeRequested
       THEN /\ pc' = "returned"
            /\ loopResult' = 0
            /\ UNCHANGED <<ran, polled, foreign>>
       ELSE /\ pc' = "Update"
            /\ ran' = <<>>
            /\ polled' = FALSE
            /\ foreign' = {}
            /\ UNCHANGED loopResult
    /\ UNCHANGED <<debug, initFailure, initLog, initResult, window, imguiInit,
                   imguiShutdowns, imguiBadShutdown, windowDestroys, stops, tree,
                   local, world, pending, active, lights, skybox, isMotorcycle,
                   uiAngles, closeRequested, glErrors, logged, nullDeref, edits>>

\* the close-requested flag is raised from outside the loop body's control
RequestClose ==
    /\ InLoop
    /\ ~closeRequested
    /\ closeRequested' = TRUE
    /\ UNCHANGED <<pc, debug, initFailure, initLog, initResult, loopResult,
                   window, imguiInit, imguiShutdowns, imguiBadShutdown,
                   windowDestroys, stops, tree, local, world, pending, active,
                   lights, skybox, isMotorcycle, uiAngles, glErrors, logged,
                   polled, ran, nullDeref, foreign, edits>>

\* local transforms an active camera or vehicle may move itself to
Moves == {Identity, [a |-> 1, b |-> 1]}

\* a write of a light's direction by a node's update
NoWrite == [light |-> "none", direction |-> DirectionVector(0, 0)]

Writes ==
    {NoWrite} \cup {[light |-> l, direction |-> DirectionVector(7, 7)] :
                       l \in {"sun", "spotLightOne", "spotLightTwo"}}

\* sceneRoot.Update: nodes that hold "active" status may move themselves;
\* node updates share the lighting model and may set a light's direction
SceneUpdate(moves, writes) ==
    /\ pc = "Update"
    /\ \E movers \in SUBSET active : \E to \in [movers -> moves] :
         local' = [n \in Nodes |-> IF n \in movers THEN to[n] ELSE local[n]]
    /\ \E w \in writes :
         /\ w # NoWrite => ~lights.absent
         /\ lights' = IF w = NoWrite THEN lights
                      ELSE [lights EXCEPT ![w.light].direction = w.direction]
         /\ foreign' = IF w = NoWrite THEN foreign ELSE foreign \cup {w.light}
    /\ Advance("Update")
    /\ UNCHANGED <<debug, initFailure, initLog, initResult, loopResult, window,
                   imguiInit, imguiShutdowns, imguiBadShutdown, windowDestroys,
                   stops, tree, world, pending, active, skybox, isMotorcycle,
                   uiAngles, closeRequested, glErrors, logged, polled,
                   nullDeref, edits>>

\* Node::CalculateWorldTransform over the whole tree, parents before children:
\* each node's world matrix from its parent's fresh world matrix
RECURSIVE WorldPass(_, _)
WorldPass(n, w) ==
    IF n > Len(tree) THEN w
    ELSE LET parentWorld == IF tree[n].parent = Null THEN Identity
                            ELSE w[tree[n].parent]
         IN  WorldPass(n + 1, [w EXCEPT ![n] = ComputeWorldMatrix(parentWorld, local[n])])

CalculateWorldTransform ==
    /\ pc = "CalculateWorldTransform"
    /\ world' = WorldPass(1, world)
    /\ Advance("CalculateWorldTransform")
    /\ UNCHANGED <<debug, initFailure, initLog, initResult, loopResult, window,
                   imguiInit, imguiShutdowns, imguiBadShutdown, windowDestroys,
                   stops, tree, local, pending, active, lights, skybox,
                   isMotorcycle, uiAngles, closeRequested, glErrors, logged,
                   polled, nullDeref, foreign, edits>>

\* nodes that submit themselves to the renderer
Drawable == {n \in Nodes : tree[n].kind \in {"ModelNode", "MotorcycleNode"}}

\* sceneRoot.Draw: every drawable node submits its current world matrix
SceneDraw ==
    /\ pc = "SceneDraw"
    /\ pending' = [n \in Drawable |-> world[n]]
    /\ Advance("SceneDraw")
    /\ UNCHANGED <<debug, initFailure, initLog, initResult, loopResult, window,
                   imguiInit, imguiShutdowns, imguiBadShutdown, windowDestroys,
                   stops, tree, local, world, active, lights, skybox,
                   isMotorcycle, uiAngles, closeRequested, glErrors, logged,
                   polled, nullDeref, foreign, edits>>

\* renderer.Draw: the pending submissions are drawn with the active camera and
\* the list is cleared; the draw calls may leave errors pending
RendererDraw(raises) ==
    /\ pc = "RendererDraw"
    /\ pending' = <<>>
    /\ \E raised \in raises : glErrors' = Raise(raised)
    /\ Advance("RendererDraw")
    /\ UNCHANGED <<debug, initFailure, initLog, initResult, loopResult, window,
                   imguiInit, imguiShutdowns, imguiBadShutdown, windowDestroys,
                   stops, tree, local, world, active, lights, skybox,
                   isMotorcycle, uiAngles, closeRequested, logged, polled,
                   nullDeref, foreign, edits>>

\* sceneLight->DrawGizmos(): a call through sceneLight, null before PrepareScene
DrawGizmos ==
    /\ pc = "DrawGizmos"
    /\ IF lights.absent
       THEN /\ nullDeref' = nullDeref \cup {"sceneLight"}
            /\ Advance("DrawGizmos") \/ Abort("DrawGizmos")
       ELSE /\ UNCHANGED nullDeref
            /\ Advance("DrawGizmos")
    /\ UNCHANGED <<debug, initFailure, initLog, initResult, loopResult, window,
                   imguiInit, imguiShutdowns, imguiBadShutdown, windowDestroys,
                   stops, tree, local, world, pending, active, lights, skybox,
                   isMotorcycle, uiAngles, closeRequested, glErrors, logged,
                   polled, foreign, edits>>

\* if (skybox) skybox->Draw()
SkyboxDraw ==
    /\ pc = "SkyboxDraw"
    /\ Advance("SkyboxDraw")
    /\ UNCHANGED <<debug, initFailure, initLog, initResult, loopResult, window,
                   imguiInit, imguiShutdowns, imguiBadShutdown, windowDestroys,
                   stops, tree, local, world, pending, active, lights, skybox,
                   isMotorcycle, uiAngles, closeRequested, glErrors, logged,
                   polled, nullDeref, foreign, edits>>

\* UpdateWidget without the branch that hands control back to the free camera
WidgetActivationNoHandBack(act, motorcycle, freeCamera, flag) ==
    IF motorcycle = Null THEN act ELSE SetIsActive(act, motorcycle, flag)

\* the camera part of UpdateWidget: motorcycle->SetIsActive(isMotorcycle) and,
\* when the box is unticked, freeCamera->SetActive(); a call through a null
\* pointer that does not kill the process has no effect on the tree
WidgetActivation(act, motorcycle, freeCamera, flag) ==
    LET afterMotorcycle ==
            IF motorcycle = Null THEN act ELSE SetIsActive(act, motorcycle, flag)
    IN  IF flag \/ freeCamera = Null THEN afterMotorcycle
        ELSE SetActive(afterMotorcycle, freeCamera)

\* where UpdateWidget may end: at its return, or dead at one of its calls
\* through a pointer
WidgetFates == {"return", "motorcycle", "freeCamera", "sceneLight"}

\* UpdateWidget: the checkbox, the two lookups and activation calls, then the
\* lighting widgets and the four setters
UpdateWidget(checks, edit) ==
    /\ pc = "UpdateWidget"
    /\ edit # NoEdit => (edits < MaxEdits /\ ~lights.absent)
    /\ \E flag \in checks, m \in GetChild("MotorcycleNode"),
          f \in GetChild("FreeCameraNode"), fate \in WidgetFates :
         LET motorcycle == DynamicCast("MotorcycleNode", m)
             freeCamera == DynamicCast("FreeCameraNode", f)
             null1 == motorcycle = Null
             null2 == ~flag /\ freeCamera = Null
             null3 == lights.absent
             called == CASE fate = "motorcycle" -> {"motorcycle"}
                         [] fate = "freeCamera" -> {"motorcycle", "freeCamera"}
                         [] OTHER -> {"motorcycle", "freeCamera", "sceneLight"}
             nulls == {x \in called : \/ x = "motorcycle" /\ null1
                                      \/ x = "freeCamera" /\ null2
                                      \/ x = "sceneLight" /\ null3}
         IN  /\ fate = "motorcycle" => null1
             /\ fate = "freeCamera" => null2
             /\ fate = "sceneLight" => null3
             /\ isMotorcycle' = flag
             /\ nullDeref' = nullDeref \cup nulls
             /\ active' = IF fate = "motorcycle" THEN active
                          ELSE WidgetActivation(active, motorcycle, freeCamera, flag)
             /\ IF fate = "return"
                THEN /\ uiAngles' = AnglesAfter(edit)
                     /\ lights' = IF lights.absent THEN lights ELSE LightsAfter(edit)
                     /\ edits' = IF edit = NoEdit THEN edits ELSE edits + 1
                     /\ Advance("UpdateWidget")
                ELSE /\ UNCHANGED <<uiAngles, lights, edits>>
                     /\ Abort("UpdateWidget")
    /\ UNCHANGED <<debug, initFailure, initLog, initResult, loopResult, window,
                   imguiInit, imguiShutdowns, imguiBadShutdown, windowDestroys,
                   stops, tree, local, world, pending, skybox, closeRequested,
                   glErrors, logged, polled, foreign>>

\* ImGui::Render, RenderDrawData, glfwSwapBuffers, glfwPollEvents: the frame
\* is presented and window events, a close request among them, are taken in
Present ==
    /\ pc = "Present"
    /\ pc' = "head"
    /\ closeRequested' \in {closeRequested, TRUE}
    /\ UNCHANGED <<debug, initFailure, initLog, initResult, loopResult, window,
                   imguiInit, imguiShutdowns, imguiBadShutdown, windowDestroys,
                   stops, tree, local, world, pending, active, lights, skybox,
                   isMotorcycle, uiAngles, glErrors, logged, polled, ran,
                   nullDeref, foreign, edits>>

-----------------------------------------------------------------------------
(* Specifications.                                                         *)

\* one statement of the frame loop
LoopStep ==
    \/ LoopHead
    \/ SceneUpdate(Moves, {NoWrite})
    \/ CalculateWorldTransform
    \/ SceneDraw
    \/ RendererDraw(0..1)
    \/ DrawGizmos
    \/ SkyboxDraw
    \/ UpdateWidget(BOOLEAN, NoEdit)
    \/ Present

\* the whole program: any build, any outcome of Init, with or without
\* PrepareScene, camera toggles, moving nodes, graphics errors, close requests
Next ==
    \/ EngineInit(Failures)
    \/ PrepareScene(Rotations, 0..1)
    \/ MainLoopEnter
    \/ LoopStep
    \/ RequestClose
    \/ Stop
    \/ Destructor

Spec == Init /\ [][Next]_vars

\* the thread keeps running: a statement of the loop that can execute does
LiveSpec == Spec /\ WF_vars(LoopStep)

\* the lighting overlay: a prepared scene in a release build, the user editing
\* lighting widgets and node updates writing light directions
NextLights ==
    \/ EngineInit({"none"})
    \/ PrepareScene({1}, {0})
    \/ MainLoopEnter
    \/ LoopHead
    \/ SceneUpdate({}, Writes)
    \/ CalculateWorldTransform
    \/ SceneDraw
    \/ RendererDraw({0})
    \/ DrawGizmos
    \/ SkyboxDraw
    \/ \E edit \in AllEdits : UpdateWidget({FALSE}, edit)
    \/ Present

\* a release build
InitLights == Init /\ ~debug

SpecLights == InitLights /\ [][NextLights]_vars

-----------------------------------------------------------------------------
(* Properties.                                                             *)

IsPrefix(s, t) == Len(s) <= Len(t) /\ SubSeq(t, 1, Len(s)) = s

Prepared == ~lights.absent

\* the phases of one frame as the design lists them
ExpectedPhases ==
    IF skybox
    THEN <<"Update", "CalculateWorldTransform", "SceneDraw", "RendererDraw",
           "DrawGizmos", "SkyboxDraw", "UpdateWidget">>
    ELSE <<"Update", "CalculateWorldTransform", "SceneDraw", "RendererDraw",
           "DrawGizmos", "UpdateWidget">>

\* C1: within a frame the phases start in the listed order, none twice and
\* none skipped (the skybox phase only when a skybox exists); the frame is
\* presented, and the next frame started, only after all of them have run.
C1_PhaseOrder ==
    /\ IsPrefix(ran, ExpectedPhases)
    /\ pc \in Phases => /\ Len(ran) < Len(ExpectedPhases)
                        /\ ExpectedPhases[Len(ran) + 1] = pc
    /\ pc = "Present" => ran = ExpectedPhases
    /\ pc = "head" => ran \in {<<>>, ExpectedPhases}

\* a second frame is under way after a complete first one, skybox included
C1_Witness ==
    /\ pc = "SkyboxDraw"
    /\ isMotorcycle
    /\ ran = <<"Update", "CalculateWorldTransform", "SceneDraw", "RendererDraw",
               "DrawGizmos">>

\* C2: at most one camera-capable node reports "active".
C2_SingleActive ==
    /\ active \subseteq CameraCapable
    /\ Cardinality(active) <= 1

\* the motorcycle has taken over from the free camera PrepareScene activated
C2_Witness ==
    /\ pc = "Present"
    /\ \E n \in active : tree[n].kind = "MotorcycleNode"

\* C3: UpdateWidget never calls through the result of a lookup for a kind of
\* node the tree does not hold.
C3_NoAbsentDeref ==
    /\ (\A n \in Nodes : tree[n].kind # "MotorcycleNode") => "motorcycle" \notin nullDeref
    /\ (\A n \in Nodes : tree[n].kind # "FreeCameraNode") => "freeCamera" \notin nullDeref

\* the local transforms from the root down to node n
RECURSIVE PathTo(_)
PathTo(n) == IF n = Null THEN <<>> ELSE Append(PathTo(tree[n].parent), local[n])

\* the product of a sequence of matrices, in order
RECURSIVE ProductOf(_)
ProductOf(ms) == IF ms = <<>> THEN Identity ELSE Mul(Head(ms), ProductOf(Tail(ms)))

\* C4: when the scene is drawn, every node's world transform -- and every
\* transform then handed to the renderer -- is the root-to-leaf product of the
\* local transforms as Update of this frame left them.
C4_WorldMatchesChain ==
    /\ pc = "SceneDraw" => \A n \in Nodes : world[n] = ProductOf(PathTo(n))
    /\ pc = "RendererDraw" => \A n \in DOMAIN pending : pending[n] = ProductOf(PathTo(n))

\* the scene is about to be drawn in a frame whose Update moved the camera
C4_Witness ==
    /\ pc = "SceneDraw"
    /\ Prepared
    /\ local[FreeCamera] # Identity
    /\ world[Len(tree) - 1] # local[Len(tree) - 1]

\* C5: Init returns non-zero exactly when a setup step failed, having run the
\* steps up to the failing one and none after it; it returns 0 only after all
\* steps; the frame loop runs only after Init returned 0.
C5_InitOutcome ==
    /\ (InLoop \/ loopResult # NotRun) => initResult = 0
    /\ initResult # NotRun =>
         /\ (initResult # 0) <=> (initFailure # "none")
         /\ IsPrefix(initLog, InitSteps)
         /\ initFailure # "none" =>
              /\ initLog[Len(initLog)] = initFailure
              /\ \A i \in 1..Len(initLog) :
                   initLog[i] \notin {"CursorPosCallback", "InitializeImGui", "GizmoInitialize"}
              /\ ~imguiInit
         /\ initResult = 0 => initLog = InitSteps /\ imguiInit

\* Init has returned after the loader step failed
C5_Witness == pc = "initFailed" /\ initFailure = "gladLoadGLLoader" /\ initResult = 1

\* C6: in a prepared scene some camera node is active whenever renderer.Draw runs.
C6_CameraAtDraw == (pc = "RendererDraw" /\ Prepared) => active # {}

\* renderer.Draw is about to run after the motorcycle was switched on, moved
\* itself, and was switched off again
C6_Witness ==
    /\ pc = "RendererDraw"
    /\ Prepared
    /\ ~isMotorcycle
    /\ local[Len(tree)] = Identity

\* C7: once close is requested while the loop runs on a prepared scene, the
\* loop eventually returns 0.
C7_CloseLeadsToReturn == (closeRequested /\ InLoop /\ Prepared) ~> (loopResult = 0)

\* C8: in a DEBUG build the error state has been polled, and no error is left
\* pending, by the time a frame is presented.
C8_PolledEveryFrame == (debug /\ pc = "Present") => (polled /\ glErrors = 0)

\* the fields of the lighting model UpdateWidget does not derive
C9_Kept(l) ==
    [color |-> l.sun.color,
     bulb |-> l.bulb,
     one |-> <<l.spotLightOne.color, l.spotLightOne.position,
               l.spotLightOne.linear, l.spotLightOne.quadratic>>,
     two |-> <<l.spotLightTwo.color, l.spotLightTwo.position,
               l.spotLightTwo.linear, l.spotLightTwo.quadratic>>]

\* C9: a frame's UpdateWidget without user input keeps colour, position and
\* attenuation of every light and the UI's angles; every UpdateWidget leaves
\* the three directions equal to the ones derived from the UI's angles,
\* whatever was written there before.
C9_LightsLastWrite ==
    [][IF pc = "UpdateWidget" /\ pc' = "Present" /\ Prepared
       THEN /\ edits' = edits =>
                 (C9_Kept(lights') = C9_Kept(lights) /\ uiAngles' = uiAngles)
            /\ \A l \in {"sun", "spotLightOne", "spotLightTwo"} :
                 lights'[l].direction =
                     <<RadiansOf(uiAngles'[l][1] * 1000), RadiansOf(uiAngles'[l][2] * 1000)>>
       ELSE TRUE]_vars

\* the overlay has just run, without user input so far, in a frame in which a
\* node's update had written the sun's direction
C9_Witness ==
    /\ pc = "Present"
    /\ "sun" \in foreign
    /\ edits = 0
    /\ lights.sun.direction = <<-524, 0>>

\* C10: ImGui is shut down at most once and never while uninitialized; the
\* window is destroyed and GLFW terminated at most once.
C10_ReleaseOnce == imguiShutdowns <= 1 /\ windowDestroys <= 1 /\ ~imguiBadShutdown

====
